---- MODULE Spec2Model ----
(***************************************************************************)
(* XYZ Plot Studio backend: the experiment record store, the run           *)
(* orchestrator (app/api/routes.py) and the execution engine               *)
(* (app/services/experiment_service.py).                                   *)
(*                                                                         *)
(* Scheduling: one asyncio event loop.  A request handler runs to its end  *)
(* without yielding.  A background task created by execute runs from one   *)
(* backend invocation to the next without yielding; the backend calls      *)
(* (checkpoint load, the per-combination node calls) are the points where  *)
(* other handlers and other background tasks may run.  Every action below  *)
(* is one such uninterrupted segment.                                      *)
(***************************************************************************)
EXTENDS Integers, Sequences, FiniteSets, TLC

\* ---- bounds of the model ----
MaxExperiments == 1
MaxTasks == 2
MaxCombos == 2
MaxSeeds == 2
MaxSyncs == 1
MaxStored == 3
MaxLen == 2

\* ---- program constants ----
max_images_per_experiment == 500
DefaultSeed == -1

\* the ids uuid4 may return, and the ids a request may name: FakeId is the id
\* of no record (the fake_id of the tests)
FakeId == 0
Ids == 1..MaxExperiments
RequestIds == {FakeId} \cup Ids

\* the ids of the records of a store that holds several experiments
StoreIds == 1..MaxStored

\* Python None for strings, and for Optional[datetime]
None == "None"
NoTime == -1

\* a run that no successful cancel has addressed yet
NotCancelled == -1

\* ExperimentStatus
DRAFT == "draft"
QUEUED == "queued"
RUNNING == "running"
COMPLETED == "completed"
FAILED == "failed"
CANCELLED == "cancelled"

\* an oversized grid (the one of test_create_experiment_too_many_images)
LargeGrid == [nx |-> 100, ny |-> 4, nz |-> 3]

\* the grids a create request may carry: every grid of at most MaxCombos
\* combinations, and the oversized one
SmallGrids ==
    {g \in [nx : 1..MaxCombos, ny : 1..MaxCombos, nz : 1..MaxCombos] :
        g.nx * g.ny * g.nz <= MaxCombos}

GridInputs == SmallGrids \cup {LargeGrid}

\* grids of 50, 250, 500 and 501 combinations, and the values of num_seeds
\* (1 to 10) that take them to the limit of 500 images and over it
BoundaryGrids ==
    {[nx |-> n, ny |-> 5, nz |-> 10] : n \in {1, 5, 10}}
        \cup {[nx |-> 167, ny |-> 3, nz |-> 1]}

SeedCounts == {1, 2, 10}

\* configured seeds a request may carry, and representatives of the values
\* random.randint(0, 2**32-1) may return (Python integers do not overflow;
\* the representatives stay below the largest integer TLC evaluates)
SeedInputs == {DefaultSeed, 42}
RandomSeeds == {0}

\* messages
BackendUnavailable == "BackendUnavailable"
ImageFailed(k) == "Image " \o ToString(k) \o " failed: BackendError"

VARIABLES
    experiments,          \* routes._experiments: id -> ExperimentResponse
    order,                \* insertion order of the keys of _experiments
    running_experiments,  \* ExperimentExecutor._running_experiments: id -> bool
    tasks,                \* the background tasks created by asyncio.create_task
    syncs,                \* number of tracking-service runs created
    last                  \* the last operation performed: its request and outcome

vars == <<experiments, order, running_experiments, tasks, syncs, last>>

\* ---- datetime.now() ----
\* Time is kept per record, counted from the record's creation: a reading of
\* the clock made while writing a record is later than the record's last stamp.
datetime_now(rec) == rec.updated_at + 1

\* ---- ParameterGrid ----
total_combinations(g) == g.nx * g.ny * g.nz

\* ---- dict helpers ----
DictSet(d, k, v) == [x \in (DOMAIN d) \cup {k} |-> IF x = k THEN v ELSE d[x]]
DictPop(d, k) == [x \in (DOMAIN d) \ {k} |-> d[x]]
DictGet(d, k, default) == IF k \in DOMAIN d THEN d[k] ELSE default

NoOp == [op |-> "init", id |-> 0, task |-> 0, outcome |-> "ok",
         request |-> None,
         before |-> None, writes |-> <<>>]

Init ==
    /\ experiments = <<>>
    /\ order = <<>>
    /\ running_experiments = <<>>
    /\ tasks = <<>>
    /\ syncs = 0
    /\ last = NoOp

\* ---- create_experiment ----
\* the fields of ExperimentCreate the handler reads
CreateRequest(grid, multi_seed, num_seeds) ==
    [grid |-> grid, multi_seed |-> multi_seed, num_seeds |-> num_seeds]

\* a total that ignores multi-seed mode
CreateTotalImages_SeedsIgnored(grid, multi_seed, num_seeds) ==
    total_combinations(grid)

CreateTotalImages(grid, multi_seed, num_seeds) ==
    IF multi_seed THEN total_combinations(grid) * num_seeds
    ELSE total_combinations(grid)

NewExperiment(id, grid, seed, total_images) ==
    [id |-> id, status |-> DRAFT, grid |-> grid, seed |-> seed,
     total_images |-> total_images, images_generated |-> 0,
     progress |-> <<0, 1>>,
     created_at |-> 0, updated_at |-> 0,
     started_at |-> NoTime, completed_at |-> NoTime,
     error_message |-> None, wandb_run_id |-> None]

\* a limit that already refuses a request of exactly the maximum
ExceedsCapacity_OffByOne(total_images) == total_images >= max_images_per_experiment

ExceedsCapacity(total_images) == total_images > max_images_per_experiment

CreateRejected(grid, multi_seed, num_seeds) ==
    /\ ExceedsCapacity(CreateTotalImages(grid, multi_seed, num_seeds))
    /\ last' = [op |-> "create", id |-> 0, task |-> 0,
                outcome |-> "CapacityExceeded",
                request |-> CreateRequest(grid, multi_seed, num_seeds),
                before |-> None, writes |-> <<>>]
    /\ UNCHANGED <<experiments, order, running_experiments, tasks, syncs>>

CreateAccepted(id, grid, multi_seed, num_seeds, seed) ==
    /\ id \notin DOMAIN experiments
    /\ ~ExceedsCapacity(CreateTotalImages(grid, multi_seed, num_seeds))
    /\ experiments' = DictSet(experiments, id,
            NewExperiment(id, grid, seed, CreateTotalImages(grid, multi_seed, num_seeds)))
    /\ order' = Append(order, id)
    /\ last' = [op |-> "create", id |-> id, task |-> 0, outcome |-> "ok",
                request |-> CreateRequest(grid, multi_seed, num_seeds),
                before |-> None, writes |-> <<DRAFT>>]
    /\ UNCHANGED <<running_experiments, tasks, syncs>>

create_experiment ==
    \E grid \in GridInputs, multi_seed \in BOOLEAN, num_seeds \in 1..MaxSeeds :
        \/ CreateRejected(grid, multi_seed, num_seeds)
        \/ \E id \in Ids, seed \in SeedInputs :
               CreateAccepted(id, grid, multi_seed, num_seeds, seed)

\* create requests around the capacity limit, in a store of several records
create_boundary ==
    \E grid \in BoundaryGrids, multi_seed \in BOOLEAN, num_seeds \in SeedCounts :
        \/ CreateRejected(grid, multi_seed, num_seeds)
        \/ \E id \in StoreIds :
               CreateAccepted(id, grid, multi_seed, num_seeds, DefaultSeed)

\* ---- get_experiment / list_experiments ----
get_experiment(id) ==
    IF id \notin DOMAIN experiments
    THEN [status_code |-> 404, detail |-> "Experiment not found"]
    ELSE [status_code |-> 200, body |-> experiments[id]]

\* a listing that shows the newest record first
list_experiments_NewestFirst ==
    [i \in 1..Len(order) |-> experiments[order[Len(order) + 1 - i]]]

list_experiments == [i \in 1..Len(order) |-> experiments[order[i]]]

\* create requests in a store of several records: one grid of one
\* combination, and the oversized one
create_stored ==
    \/ CreateRejected(LargeGrid, FALSE, 1)
    \/ \E id \in StoreIds :
           CreateAccepted(id, [nx |-> 1, ny |-> 1, nz |-> 1], FALSE, 1, DefaultSeed)

\* ---- execute_experiment (the request handler) ----
NewTask(id) ==
    [exp |-> id, pc |-> "scheduled", outcome |-> "none",
     seed_base |-> 0, current_index |-> 0,
     x_idx |-> 0, y_idx |-> 0, z_idx |-> 0,
     results |-> <<>>, invocations |-> <<>>,
     progress_calls |-> <<>>, error_calls |-> <<>>, loads |-> 0,
     cancelled_after |-> NotCancelled]

\* a handler that never refuses
ExecuteGuard_Never(rec) == FALSE

ExecuteGuard(rec) == rec.status = RUNNING

ExecuteNotFound(id) ==
    /\ id \notin DOMAIN experiments
    /\ last' = [op |-> "execute", id |-> id, task |-> 0, outcome |-> "NotFound",
                request |-> None,
                before |-> None, writes |-> <<>>]
    /\ UNCHANGED <<experiments, order, running_experiments, tasks, syncs>>

ExecuteAlreadyRunning(id) ==
    /\ id \in DOMAIN experiments
    /\ ExecuteGuard(experiments[id])
    /\ last' = [op |-> "execute", id |-> id, task |-> 0, outcome |-> "AlreadyRunning",
                request |-> None,
                before |-> experiments[id].status, writes |-> <<>>]
    /\ UNCHANGED <<experiments, order, running_experiments, tasks, syncs>>

\* Len(tasks) < MaxTasks bounds the number of runs ever scheduled
ExecuteQueued(id) ==
    /\ id \in DOMAIN experiments
    /\ ~ExecuteGuard(experiments[id])
    /\ Len(tasks) < MaxTasks
    /\ experiments' = [experiments EXCEPT ![id].status = QUEUED,
                                          ![id].updated_at = datetime_now(experiments[id])]
    /\ tasks' = Append(tasks, NewTask(id))
    /\ last' = [op |-> "execute", id |-> id, task |-> Len(tasks) + 1, outcome |-> "ok",
                request |-> None,
                before |-> experiments[id].status, writes |-> <<QUEUED>>]
    /\ UNCHANGED <<order, running_experiments, syncs>>

execute_experiment ==
    \E id \in RequestIds :
        \/ ExecuteNotFound(id)
        \/ ExecuteAlreadyRunning(id)
        \/ ExecuteQueued(id)

\* ---- ExperimentExecutor.cancel_experiment / is_running ----
\* a cancel that reports whether the flag was still set
executor_cancel_result_FlagSet(reg, id) == DictGet(reg, id, FALSE)

executor_cancel_result(reg, id) == id \in DOMAIN reg

\* a cancel that clears the flag of every registered run
executor_cancel_registry_All(reg, id) ==
    IF id \in DOMAIN reg THEN [i \in DOMAIN reg |-> FALSE] ELSE reg

executor_cancel_registry(reg, id) ==
    IF id \in DOMAIN reg THEN [reg EXCEPT ![id] = FALSE] ELSE reg

is_running(reg, id) == DictGet(reg, id, FALSE)

\* ---- cancel_experiment (the request handler) ----
\* a handler that never checks the status
CancelGuard_Never(rec) == FALSE

CancelGuard(rec) == rec.status # RUNNING

CancelNotFound(id) ==
    /\ id \notin DOMAIN experiments
    /\ last' = [op |-> "cancel", id |-> id, task |-> 0, outcome |-> "NotFound",
                request |-> None,
                before |-> None, writes |-> <<>>]
    /\ UNCHANGED <<experiments, order, running_experiments, tasks, syncs>>

CancelNotRunning(id) ==
    /\ id \in DOMAIN experiments
    /\ CancelGuard(experiments[id])
    /\ last' = [op |-> "cancel", id |-> id, task |-> 0, outcome |-> "NotRunning",
                request |-> None,
                before |-> experiments[id].status, writes |-> <<>>]
    /\ UNCHANGED <<experiments, order, running_experiments, tasks, syncs>>

\* the runs of id that have started and not exited, marked with the number
\* of backend invocations they had started when the engine's cancel returned
\* true (the first time)
MarkCancelled(id) ==
    [t \in 1..Len(tasks) |->
        IF /\ tasks[t].exp = id
           /\ tasks[t].pc \in {"loading", "generating"}
           /\ tasks[t].cancelled_after = NotCancelled
        THEN [tasks[t] EXCEPT !.cancelled_after = Len(tasks[t].invocations)]
        ELSE tasks[t]]

CancelRunning(id) ==
    /\ id \in DOMAIN experiments
    /\ ~CancelGuard(experiments[id])
    /\ running_experiments' = executor_cancel_registry(running_experiments, id)
    /\ IF executor_cancel_result(running_experiments, id)
       THEN /\ experiments' = [experiments EXCEPT ![id].status = CANCELLED,
                                                  ![id].updated_at =
                                                      datetime_now(experiments[id])]
            /\ tasks' = MarkCancelled(id)
            /\ last' = [op |-> "cancel", id |-> id, task |-> 0, outcome |-> "ok",
                        request |-> None,
                        before |-> experiments[id].status, writes |-> <<CANCELLED>>]
       ELSE /\ last' = [op |-> "cancel", id |-> id, task |-> 0, outcome |-> "CancelFailed",
                        request |-> None,
                        before |-> experiments[id].status, writes |-> <<>>]
            /\ UNCHANGED <<experiments, tasks>>
    /\ UNCHANGED <<order, syncs>>

cancel_experiment ==
    \E id \in RequestIds :
        \/ CancelNotFound(id)
        \/ CancelNotRunning(id)
        \/ CancelRunning(id)

\* ---- the callbacks and the terminal writes of _execute_experiment_background ----
\* a callback that counts one image more than the engine reports
progress_callback_OneMore(rec, current, total) ==
    [rec EXCEPT !.images_generated = current + 1,
                !.progress = <<current + 1, total>>,
                !.updated_at = datetime_now(rec)]

progress_callback(rec, current, total) ==
    [rec EXCEPT !.images_generated = current,
                !.progress = <<current, total>>,
                !.updated_at = datetime_now(rec)]

\* an error callback that also marks the record failed
error_callback_MarksFailed(rec, error_msg) ==
    [rec EXCEPT !.error_message = error_msg, !.status = FAILED,
                !.updated_at = datetime_now(rec)]

error_callback(rec, error_msg) ==
    [rec EXCEPT !.error_message = error_msg, !.updated_at = datetime_now(rec)]

\* a start that does not stamp started_at
MarkRunning_NoStamp(rec) ==
    [rec EXCEPT !.status = RUNNING, !.updated_at = datetime_now(rec)]

MarkRunning(rec) ==
    [rec EXCEPT !.status = RUNNING, !.started_at = datetime_now(rec),
                !.updated_at = datetime_now(rec)]

\* a completion that leaves updated_at alone
MarkCompleted_NoTouch(rec) ==
    [rec EXCEPT !.status = COMPLETED, !.completed_at = datetime_now(rec)]

MarkCompleted(rec) ==
    [rec EXCEPT !.status = COMPLETED, !.completed_at = datetime_now(rec),
                !.updated_at = datetime_now(rec)]

\* a failure that stamps created_at
MarkFailed_Recreated(rec, msg) ==
    [rec EXCEPT !.status = FAILED, !.error_message = msg,
                !.created_at = datetime_now(rec),
                !.updated_at = datetime_now(rec)]

MarkFailed(rec, msg) ==
    [rec EXCEPT !.status = FAILED, !.error_message = msg,
                !.updated_at = datetime_now(rec)]

\* ---- ExperimentExecutor.execute_experiment ----
\* An engine segment works on st = [rec, reg, task, writes]: the record the
\* task holds a reference to, the run registry, the task's locals, and the
\* status values written so far in the segment.

\* a finally clause that leaves the registry entry in place
Unregister_Kept(reg, id) == reg

\* the finally clause: the id leaves the registry on every exit path
Unregister(reg, id) == DictPop(reg, id)

\* a return after which the record is left as it was
ReturnResults_StaysRunning(st, how) ==
    [rec |-> st.rec,
     reg |-> Unregister(st.reg, st.task.exp),
     task |-> [st.task EXCEPT !.pc = "done", !.outcome = how],
     writes |-> st.writes]

\* "return results" (line 100 or 181), the finally clause, then "Mark complete"
ReturnResults(st, how) ==
    [rec |-> MarkCompleted(st.rec),
     reg |-> Unregister(st.reg, st.task.exp),
     task |-> [st.task EXCEPT !.pc = "done", !.outcome = how],
     writes |-> Append(st.writes, COMPLETED)]

\* the outer except clause, the finally clause, then the except clause of the task
RaiseRunFailed(st, msg) ==
    [rec |-> MarkFailed(error_callback(st.rec, msg), msg),
     reg |-> Unregister(st.reg, st.task.exp),
     task |-> [st.task EXCEPT !.pc = "done", !.outcome = "failed",
                              !.error_calls = Append(@, msg)],
     writes |-> Append(st.writes, FAILED)]

\* the head of one loop iteration: the cancellation check, then the request
\* every request of the run carries the seed base itself
Seed_Fixed(task) == task.seed_base

Seed(task) == task.seed_base + task.current_index

Request(task) ==
    [index |-> task.current_index, seed |-> Seed(task),
     x_idx |-> task.x_idx, y_idx |-> task.y_idx, z_idx |-> task.z_idx]

CancelObserved(reg, id) == ~DictGet(reg, id, FALSE)

LoopHead(st) ==
    IF CancelObserved(st.reg, st.task.exp)
    THEN ReturnResults(st, "cancelled")
    ELSE [st EXCEPT !.task.pc = "generating",
                    !.task.invocations = Append(@, Request(st.task))]

\* the three nested enumerate loops: X innermost, Z outermost
LoopExhausted(task, g) ==
    /\ task.x_idx + 1 >= g.nx
    /\ task.y_idx + 1 >= g.ny
    /\ task.z_idx + 1 >= g.nz

\* loops nested with Y innermost
LoopAdvance_YInnermost(task, g) ==
    IF task.y_idx + 1 < g.ny
    THEN [task EXCEPT !.y_idx = @ + 1]
    ELSE IF task.x_idx + 1 < g.nx
         THEN [task EXCEPT !.y_idx = 0, !.x_idx = @ + 1]
         ELSE [task EXCEPT !.x_idx = 0, !.y_idx = 0, !.z_idx = @ + 1]

LoopAdvance(task, g) ==
    IF task.x_idx + 1 < g.nx
    THEN [task EXCEPT !.x_idx = @ + 1]
    ELSE IF task.y_idx + 1 < g.ny
         THEN [task EXCEPT !.x_idx = 0, !.y_idx = @ + 1]
         ELSE [task EXCEPT !.x_idx = 0, !.y_idx = 0, !.z_idx = @ + 1]

\* an ordinal that is never advanced
NextIndex_Stuck(task) == task.current_index

NextIndex(task) == task.current_index + 1

\* the rest of one iteration after the backend calls returned or raised
AfterGenerate(st, ok) ==
    IF ok
    THEN LET result == Request(st.task)
             current == st.task.current_index + 1
             total == total_combinations(st.rec.grid)
         IN [st EXCEPT !.task.results = Append(@, result),
                       !.task.progress_calls =
                           Append(@, [current |-> current, total |-> total,
                                      index |-> result.index]),
                       !.rec = progress_callback(@, current, total)]
    ELSE LET msg == ImageFailed(st.task.current_index)
         IN [st EXCEPT !.task.error_calls = Append(@, msg),
                       !.rec = error_callback(@, msg)]

EndOfIteration(st) ==
    LET st1 == [st EXCEPT !.task.current_index = NextIndex(st.task)]
    IN IF LoopExhausted(st1.task, st1.rec.grid)
       THEN ReturnResults(st1, "completed")
       ELSE LoopHead([st1 EXCEPT !.task = LoopAdvance(@, st1.rec.grid)])

SeedBase(seed, rnd) == IF seed >= 0 THEN seed ELSE rnd

Segment(t) ==
    [rec |-> experiments[tasks[t].exp], reg |-> running_experiments,
     task |-> tasks[t], writes |-> <<>>]

Commit(t, op, st) ==
    /\ experiments' = [experiments EXCEPT ![tasks[t].exp] = st.rec]
    /\ running_experiments' = st.reg
    /\ tasks' = [tasks EXCEPT ![t] = st.task]
    /\ last' = [op |-> op, id |-> tasks[t].exp, task |-> t,
                outcome |-> st.task.outcome,
                request |-> None,
                before |-> experiments[tasks[t].exp].status, writes |-> st.writes]
    /\ UNCHANGED <<order, syncs>>

\* the run is suspended at a backend invocation (the checkpoint load or the
\* calls of one combination) and the event loop serves other handlers
BackendSuspended(task) == task.pc \in {"loading", "generating"}

\* a start that leaves the run registry alone
Started_NotRegistered(st0, setup_ok, rnd) ==
    LET st1 == [st0 EXCEPT !.rec = MarkRunning(@),
                           !.writes = Append(@, RUNNING)]
    IN IF setup_ok
       THEN [st1 EXCEPT !.task.pc = "loading",
                        !.task.seed_base = SeedBase(st0.rec.seed, rnd)]
       ELSE RaiseRunFailed(st1, BackendUnavailable)

\* the three stretches of a run between its suspension points, on a segment
Started(st0, setup_ok, rnd) ==
    LET st1 == [st0 EXCEPT !.rec = MarkRunning(@),
                           !.writes = Append(@, RUNNING),
                           !.reg = DictSet(@, st0.task.exp, TRUE)]
    IN IF setup_ok
       THEN [st1 EXCEPT !.task.pc = "loading",
                        !.task.seed_base = SeedBase(st0.rec.seed, rnd)]
       ELSE RaiseRunFailed(st1, BackendUnavailable)

Opened(st, ok) ==
    IF ok
    THEN LoopHead([st EXCEPT !.task.loads = @ + 1])
    ELSE RaiseRunFailed(st, BackendUnavailable)

\* a loop body that loads the checkpoint for every combination
Generated_Reloads(st, ok) ==
    EndOfIteration(AfterGenerate([st EXCEPT !.task.loads = @ + 1], ok))

Generated(st, ok) == EndOfIteration(AfterGenerate(st, ok))

\* the task starts: routes.py 225-230, then the engine up to the checkpoint load
\* (setup_ok is false when the output directory or the backend import fails).
\* The event loop starts the tasks in the order create_task queued them.
BackgroundStart(t, setup_ok, rnd) ==
    /\ t \in 1..Len(tasks)
    /\ tasks[t].pc = "scheduled"
    /\ \A u \in 1..(t - 1) : tasks[u].pc # "scheduled"
    /\ Commit(t, "background_start", Started(Segment(t), setup_ok, rnd))

\* the checkpoint load returns or raises
SessionOpened(t, ok) ==
    /\ t \in 1..Len(tasks)
    /\ tasks[t].pc = "loading"
    /\ Commit(t, "session_opened", Opened(Segment(t), ok))

\* the backend calls of one combination return or raise
GenerateDone(t, ok) ==
    /\ t \in 1..Len(tasks)
    /\ tasks[t].pc = "generating"
    /\ Commit(t, "generate_done", Generated(Segment(t), ok))

background_task ==
    \E t \in 1..MaxTasks :
        \/ \E setup_ok \in BOOLEAN, rnd \in RandomSeeds : BackgroundStart(t, setup_ok, rnd)
        \/ \E ok \in BOOLEAN : SessionOpened(t, ok)
        \/ \E ok \in BOOLEAN : GenerateDone(t, ok)

\* ---- sync_to_wandb ----
SyncNotFound(id) ==
    /\ id \notin DOMAIN experiments
    /\ last' = [op |-> "sync", id |-> id, task |-> 0, outcome |-> "NotFound",
                request |-> None,
                before |-> None, writes |-> <<>>]
    /\ UNCHANGED <<experiments, order, running_experiments, tasks, syncs>>

SyncFailed(id) ==
    /\ id \in DOMAIN experiments
    /\ last' = [op |-> "sync", id |-> id, task |-> 0, outcome |-> "SyncFailed",
                request |-> None,
                before |-> experiments[id].status, writes |-> <<>>]
    /\ UNCHANGED <<experiments, order, running_experiments, tasks, syncs>>

SyncDone(id) ==
    /\ id \in DOMAIN experiments
    /\ syncs < MaxSyncs
    /\ experiments' = [experiments EXCEPT ![id].wandb_run_id = ToString(id),
                                          ![id].updated_at =
                                              datetime_now(experiments[id])]
    /\ syncs' = syncs + 1
    /\ last' = [op |-> "sync", id |-> id, task |-> 0, outcome |-> "ok",
                request |-> None,
                before |-> experiments[id].status, writes |-> <<>>]
    /\ UNCHANGED <<order, running_experiments, tasks>>

sync_to_wandb ==
    \E id \in RequestIds :
        \/ SyncNotFound(id)
        \/ SyncFailed(id)
        \/ SyncDone(id)

\* ---- the orchestrator and the engine ----
Next ==
    \/ create_experiment
    \/ execute_experiment
    \/ cancel_experiment
    \/ background_task

Spec == Init /\ [][Next]_vars

\* ---- the same, with a fair event loop ----
\* the event loop runs every task that is ready, and every backend invocation
\* returns or raises
\* create requests with one grid of two combinations and a configured seed,
\* and the oversized one
create_two_combinations ==
    \/ CreateRejected(LargeGrid, FALSE, 1)
    \/ \E id \in Ids :
           CreateAccepted(id, [nx |-> 2, ny |-> 1, nz |-> 1], FALSE, 1, 42)

NextLive ==
    \/ create_two_combinations
    \/ execute_experiment
    \/ cancel_experiment
    \/ background_task

SpecLive ==
    /\ Init
    /\ [][NextLive]_vars
    /\ \A t \in 1..MaxTasks :
           WF_vars(\/ \E setup_ok \in BOOLEAN, rnd \in RandomSeeds :
                        BackgroundStart(t, setup_ok, rnd)
                   \/ \E ok \in BOOLEAN : SessionOpened(t, ok)
                   \/ \E ok \in BOOLEAN : GenerateDone(t, ok))

\* ---- two experiments side by side ----
PairIds == {1, 2}

\* create requests with a grid of one combination and a configured seed
create_pair ==
    \E id \in PairIds :
        CreateAccepted(id, [nx |-> 1, ny |-> 1, nz |-> 1], FALSE, 1, 42)

execute_pair ==
    \E id \in {FakeId} \cup PairIds :
        \/ ExecuteNotFound(id)
        \/ ExecuteAlreadyRunning(id)
        \/ ExecuteQueued(id)

cancel_pair ==
    \E id \in {FakeId} \cup PairIds :
        \/ CancelNotFound(id)
        \/ CancelNotRunning(id)
        \/ CancelRunning(id)

NextPair ==
    \/ create_pair
    \/ execute_pair
    \/ cancel_pair
    \/ background_task

SpecPair == Init /\ [][NextPair]_vars

\* ---- the same, with the tracking-service endpoint ----
NextSync ==
    \/ Next
    \/ sync_to_wandb

SpecSync == Init /\ [][NextSync]_vars

\* ---- a store of several records; the experiment with id 1 is run ----
NextStore ==
    \/ create_stored
    \/ execute_experiment
    \/ cancel_experiment
    \/ background_task
    \/ sync_to_wandb

SpecStore == Init /\ [][NextStore]_vars

\* ---- the create endpoint alone ----
NextCreate == create_boundary

SpecCreate == Init /\ [][NextCreate]_vars

\* ---- the engine's cancel_experiment and is_running called on their own ----
\* (as tests/test_services.py calls them), on every registry of up to
\* MaxStored runs
RegistryInputs == UNION {[ids -> BOOLEAN] : ids \in SUBSET StoreIds}

InitExecutor ==
    /\ experiments = <<>>
    /\ order = <<>>
    /\ running_experiments \in RegistryInputs
    /\ tasks = <<>>
    /\ syncs = 0
    /\ last = NoOp

ExecutorCancel(id) ==
    /\ running_experiments' = executor_cancel_registry(running_experiments, id)
    /\ last' = [op |-> "executor_cancel", id |-> id, task |-> 0,
                outcome |-> executor_cancel_result(running_experiments, id),
                request |-> [registry |-> running_experiments],
                before |-> None, writes |-> <<>>]
    /\ UNCHANGED <<experiments, order, tasks, syncs>>

ExecutorIsRunning(id) ==
    /\ last' = [op |-> "is_running", id |-> id, task |-> 0,
                outcome |-> is_running(running_experiments, id),
                request |-> [registry |-> running_experiments],
                before |-> None, writes |-> <<>>]
    /\ UNCHANGED <<experiments, order, running_experiments, tasks, syncs>>

NextExecutor ==
    \/ \E id \in StoreIds \cup {FakeId} : ExecutorCancel(id)
    \/ \E id \in StoreIds \cup {FakeId} : ExecutorIsRunning(id)

SpecExecutor == InitExecutor /\ [][NextExecutor]_vars

(***************************************************************************)
(* The parameter grid with its values, and the script generator            *)
(* (app/models/schemas.py, app/services/workflow_generator.py)             *)
(***************************************************************************)
\* a value of an axis: an int, a float or a str (a str is the sequence of its
\* characters, a float is held in tenths: Float(175) is 17.5)
Num(n) == [kind |-> "num", n |-> n, s |-> <<>>]
Str(s) == [kind |-> "str", n |-> 0, s |-> s]
Float(tenths) == [kind |-> "float", n |-> tenths, s |-> <<>>]

\* the default sampler and scheduler
EULER == Str(<<"e", "u", "l", "e", "r">>)
NORMAL == Str(<<"n", "o", "r", "m", "a", "l">>)

\* the outcome of an evaluation: a value, or the exception raised
Converted(v) == [error |-> None, value |-> v]
ValueError == [error |-> "ValueError", value |-> Num(0)]

ScalarInputs == {Num(4), Num(15), Str(<<"e">>), Str(<<"u", "'">>)}

\* ParameterDefinition.validate_values: at least one value, all of the type
\* of the first
validate_values(v) ==
    /\ Len(v) >= 1
    /\ \A i \in 1..Len(v) : v[i].kind = v[1].kind

AxisValueInputs ==
    {v \in UNION {[1..n -> ScalarInputs] : n \in 1..MaxLen} : validate_values(v)}

\* the names of the three axes: nothing makes them distinct, so every way
\* two or three of them can coincide is an input (up to renaming)
AxisNameInputs ==
    {<<"cfg", "steps", "sampler_name">>, <<"cfg", "cfg", "sampler_name">>,
     <<"cfg", "steps", "cfg">>, <<"cfg", "steps", "steps">>,
     <<"cfg", "cfg", "cfg">>}

ParameterDefinition(name, values) == [name |-> name, values |-> values]

ParameterGridInputs ==
    {[x_axis |-> ParameterDefinition(names[1], xs),
      y_axis |-> ParameterDefinition(names[2], ys),
      z_axis |-> ParameterDefinition(names[3], zs)] :
        names \in AxisNameInputs,
        xs \in AxisValueInputs, ys \in AxisValueInputs, zs \in AxisValueInputs}

count(axis) == Len(axis.values)

\* the axis counts of a grid, as the engine and the handlers use them
AxisCounts(pg) ==
    [nx |-> count(pg.x_axis), ny |-> count(pg.y_axis), nz |-> count(pg.z_axis)]

\* Python list indexing: an index from -len to len - 1 selects an element (a
\* negative one counts from the end), any other raises IndexError
PyIndexInRange(values, i) == -Len(values) <= i /\ i < Len(values)

PyIndex(values, i) == IF i >= 0 THEN values[i + 1] ELSE values[Len(values) + i + 1]

\* a dict display: a later item with the same key replaces the value
PyDict(items) ==
    [k \in {items[i][1] : i \in 1..Len(items)} |->
        LET i == CHOOSE i \in 1..Len(items) :
                     /\ items[i][1] = k
                     /\ \A j \in (i + 1)..Len(items) : items[j][1] # k
        IN items[i][2]]

\* a decomposition that takes the Y position without reducing the index
\* modulo one Z layer
CombinationIndices_NoLayer(pg, index) ==
    [x_idx |-> index % count(pg.x_axis),
     y_idx |-> index \div count(pg.x_axis),
     z_idx |-> index \div (count(pg.x_axis) * count(pg.y_axis))]

\* z_idx, y_idx, x_idx of get_combination (// and % of Python round down, as
\* \div and % do)
CombinationIndices(pg, index) ==
    [x_idx |-> index % count(pg.x_axis),
     y_idx |-> (index % (count(pg.x_axis) * count(pg.y_axis))) \div count(pg.x_axis),
     z_idx |-> index \div (count(pg.x_axis) * count(pg.y_axis))]

get_combination(pg, index) ==
    LET at == CombinationIndices(pg, index)
    IN IF /\ PyIndexInRange(pg.x_axis.values, at.x_idx)
          /\ PyIndexInRange(pg.y_axis.values, at.y_idx)
          /\ PyIndexInRange(pg.z_axis.values, at.z_idx)
       THEN [error |-> None,
             mapping |->
                 PyDict(<<<<pg.x_axis.name, PyIndex(pg.x_axis.values, at.x_idx)>>,
                          <<pg.y_axis.name, PyIndex(pg.y_axis.values, at.y_idx)>>,
                          <<pg.z_axis.name, PyIndex(pg.z_axis.values, at.z_idx)>>>>)]
       ELSE [error |-> "IndexError", mapping |-> <<>>]

\* the indices a caller may pass: the range of the grid and some on either side
IndexInputs(pg) ==
    (-(total_combinations(AxisCounts(pg)) + 1))..(total_combinations(AxisCounts(pg)) + 1)

\* ---- WorkflowGenerator ----
\* WorkflowTemplate
TXT2IMG == "txt2img"
IMG2IMG == "img2img"
HIRES_FIX == "hires_fix"
LORA_COMPARISON == "lora_comparison"
CUSTOM == "custom"
WorkflowTemplate == {TXT2IMG, IMG2IMG, HIRES_FIX, LORA_COMPARISON, CUSTOM}

\* text is a sequence of characters
DigitChars == {ToString(d) : d \in 0..9}

\* str(n) of a non-negative int
RECURSIVE PyStrInt(_)
PyStrInt(n) ==
    IF n < 10 THEN <<ToString(n)>> ELSE PyStrInt(n \div 10) \o <<ToString(n % 10)>>

\* ", ".join(parts)
RECURSIVE PyJoin(_)
PyJoin(parts) ==
    IF parts = <<>> THEN <<>>
    ELSE IF Len(parts) = 1 THEN parts[1]
    ELSE parts[1] \o <<",", " ">> \o PyJoin(Tail(parts))

\* repr(f) of a non-negative float held in tenths, and str(v) of a value
PyReprFloat(tenths) == PyStrInt(tenths \div 10) \o <<".", ToString(tenths % 10)>>

PyStr(v) ==
    IF v.kind = "str" THEN v.s
    ELSE IF v.kind = "float" THEN PyReprFloat(v.n)
    ELSE PyStrInt(v.n)

\* _format_values: quotes put around each str when all values are str, and
\* str(values) of a list of numbers otherwise
_format_values(values) ==
    IF \A i \in 1..Len(values) : values[i].kind = "str"
    THEN <<"[">> \o PyJoin([i \in 1..Len(values) |-> <<"'">> \o values[i].s \o <<"'">>])
               \o <<"]">>
    ELSE <<"[">> \o PyJoin([i \in 1..Len(values) |-> PyStr(values[i])]) \o <<"]">>

\* the part of a rendered script that depends on the grid and the seed: the
\* three list definitions, SEED, the three loops from the outermost in, the
\* names the filename f-string interpolates, the arguments of the KSampler
\* call, and the names read by results.append; a stub is a comment line
NoScript(error, text) ==
    [error |-> error, text |-> text, definitions |-> <<>>, loops |-> <<>>,
     appended |-> <<>>, seed |-> None, filename |-> <<>>, ksampler |-> <<>>]

\* an argument of the rendered call: a literal, a name the script has to have
\* bound, or the seed expression
Literal(v) == [kind |-> "literal", name |-> "", value |-> v]
Name(n) == [kind |-> "name", name |-> n, value |-> Num(0)]
SeedExpression == [kind |-> "seed", name |-> "SEED", value |-> Num(0)]

param_mapping ==
    [p \in {"cfg", "steps", "sampler_name", "sampler", "scheduler", "denoise"} |->
        IF p = "sampler" THEN "sampler_name" ELSE p]

_generate_ksampler_call(x_param, y_param, z_param) ==
    LET Maps(arg) ==
            \E p \in {x_param, y_param, z_param} :
                p \in DOMAIN param_mapping /\ param_mapping[p] = arg
    IN [seed |-> SeedExpression,
        steps |-> IF Maps("steps") THEN Name("steps") ELSE Literal(Num(20)),
        cfg |-> IF Maps("cfg") THEN Name("cfg") ELSE Literal(Float(80)),
        sampler_name |-> IF Maps("sampler_name")
                         THEN Name("sampler_name") ELSE Literal(EULER),
        scheduler |-> IF Maps("scheduler")
                      THEN Name("scheduler") ELSE Literal(NORMAL),
        denoise |-> Literal(Float(10))]

_generate_txt2img_script(pg, workflow_config) ==
    LET x_param == pg.x_axis.name
        y_param == pg.y_axis.name
        z_param == pg.z_axis.name
    IN [error |-> None,
        seed |-> workflow_config.seed,
        filename |-> <<"x_idx", "y_idx", "z_idx", x_param, y_param, z_param>>,
        ksampler |-> _generate_ksampler_call(x_param, y_param, z_param),
        text |-> "Auto-generated ComfyScript for XYZ Plot",
        definitions |->
            <<[name |-> x_param \o "_values", text |-> _format_values(pg.x_axis.values)],
              [name |-> y_param \o "_values", text |-> _format_values(pg.y_axis.values)],
              [name |-> z_param \o "_values", text |-> _format_values(pg.z_axis.values)]>>,
        loops |->
            <<[index |-> "z_idx", var |-> z_param, iterable |-> z_param \o "_values"],
              [index |-> "y_idx", var |-> y_param, iterable |-> y_param \o "_values"],
              [index |-> "x_idx", var |-> x_param, iterable |-> x_param \o "_values"]>>,
        appended |-> <<x_param, y_param, z_param>>]

_generate_img2img_script(pg, workflow_config) == NoScript(None, "# img2img workflow - TODO: implement")

_generate_hires_fix_script(pg, workflow_config) == NoScript(None, "# hires fix workflow - TODO: implement")

\* a dispatch that has no stubs
generate_script_NoStubs(pg, workflow_config) ==
    IF workflow_config.template = TXT2IMG
    THEN _generate_txt2img_script(pg, workflow_config)
    ELSE NoScript("ValueError", "Unsupported template")

generate_script(pg, workflow_config) ==
    IF workflow_config.template = TXT2IMG
    THEN _generate_txt2img_script(pg, workflow_config)
    ELSE IF workflow_config.template = IMG2IMG
    THEN _generate_img2img_script(pg, workflow_config)
    ELSE IF workflow_config.template = HIRES_FIX
    THEN _generate_hires_fix_script(pg, workflow_config)
    ELSE NoScript("ValueError", "Unsupported template")

\* ---- the Python that reads a generated script ----
SyntaxError == [error |-> "SyntaxError", value |-> <<>>]

\* the closing quote of a string literal: the first quote from position i (0
\* when the literal is not terminated)
RECURSIVE ClosingQuote(_, _)
ClosingQuote(text, i) ==
    IF i > Len(text) THEN 0
    ELSE IF text[i] = "'" THEN i
    ELSE ClosingQuote(text, i + 1)

\* the first position from i that holds no digit
RECURSIVE EndOfDigits(_, _)
EndOfDigits(text, i) ==
    IF i <= Len(text) /\ text[i] \in DigitChars THEN EndOfDigits(text, i + 1) ELSE i

\* int(digits)
RECURSIVE PyInt(_)
PyInt(digits) ==
    IF digits = <<>> THEN 0
    ELSE 10 * PyInt(SubSeq(digits, 1, Len(digits) - 1))
             + (CHOOSE d \in 0..9 : ToString(d) = digits[Len(digits)])

\* a list display of int and str literals, read from position i with the
\* items acc read so far; joined is true when the last item is a str literal
\* that a literal right after it continues (adjacent literals concatenate)
RECURSIVE PyListItem(_, _, _)
RECURSIVE PyListAfterItem(_, _, _, _)
PyListItem(text, i, acc) ==
    IF i > Len(text) THEN SyntaxError
    ELSE IF text[i] = "'"
    THEN LET j == ClosingQuote(text, i + 1)
         IN IF j = 0 THEN SyntaxError
            ELSE PyListAfterItem(text, j + 1,
                                 Append(acc, Str(SubSeq(text, i + 1, j - 1))), TRUE)
    ELSE IF text[i] \in DigitChars
    THEN LET j == EndOfDigits(text, i)
         IN IF j <= Len(text) /\ text[j] = "."
            THEN \* a float literal, read to one decimal
                 IF EndOfDigits(text, j + 1) = j + 2
                 THEN PyListAfterItem(text, j + 2,
                          Append(acc, Float(10 * PyInt(SubSeq(text, i, j - 1))
                                              + PyInt(SubSeq(text, j + 1, j + 1)))),
                          FALSE)
                 ELSE SyntaxError
            ELSE PyListAfterItem(text, j,
                                 Append(acc, Num(PyInt(SubSeq(text, i, j - 1)))), FALSE)
    ELSE SyntaxError

PyListAfterItem(text, i, acc, joined) ==
    IF i > Len(text) THEN SyntaxError
    ELSE IF text[i] = "]"
    THEN IF i = Len(text) THEN [error |-> None, value |-> acc] ELSE SyntaxError
    ELSE IF text[i] = "," /\ i + 1 <= Len(text) /\ text[i + 1] = " "
    THEN PyListItem(text, i + 2, acc)
    ELSE IF text[i] = "'" /\ joined
    THEN LET j == ClosingQuote(text, i + 1)
         IN IF j = 0 THEN SyntaxError
            ELSE PyListAfterItem(text, j + 1,
                     [acc EXCEPT ![Len(acc)] = Str(@.s \o SubSeq(text, i + 1, j - 1))],
                     TRUE)
    ELSE SyntaxError

PyEvalList(text) ==
    IF text # <<>> /\ text[1] = "[" THEN PyListItem(text, 2, <<>>) ELSE SyntaxError

RECURSIVE Flatten(_)
Flatten(seqs) == IF seqs = <<>> THEN <<>> ELSE seqs[1] \o Flatten(Tail(seqs))

\* running a rendered script: the definitions are evaluated in order (a later
\* definition of the same name replaces the earlier one), then the loops run
\* from the outermost in, each binding its index and its variable. The names
\* bound in the body of each iteration, in the order of the iterations:
ScriptIterations(script) ==
    LET lists == [i \in 1..Len(script.definitions) |->
                     PyEvalList(script.definitions[i].text)]
    IN IF \E i \in 1..Len(lists) : lists[i].error # None
       THEN [error |-> "SyntaxError", bound |-> <<>>]
       ELSE LET env == PyDict([i \in 1..Len(lists) |->
                                  <<script.definitions[i].name, lists[i].value>>])
                outer == env[script.loops[1].iterable]
                middle == env[script.loops[2].iterable]
                inner == env[script.loops[3].iterable]
                body(k, j, i) ==
                    PyDict(<<<<"SEED", Num(script.seed)>>,
                             <<script.loops[1].index, Num(k - 1)>>,
                             <<script.loops[1].var, outer[k]>>,
                             <<script.loops[2].index, Num(j - 1)>>,
                             <<script.loops[2].var, middle[j]>>,
                             <<script.loops[3].index, Num(i - 1)>>,
                             <<script.loops[3].var, inner[i]>>>>)
            IN [error |-> None,
                bound |->
                    Flatten([k \in 1..Len(outer) |->
                        Flatten([j \in 1..Len(middle) |->
                            [i \in 1..Len(inner) |-> body(k, j, i)]])])]

\* the innermost body appends the values of the three names
RunScript(script) ==
    LET run == ScriptIterations(script)
    IN [error |-> run.error,
        results |->
            [n \in 1..Len(run.bound) |->
                [i \in 1..Len(script.appended) |-> run.bound[n][script.appended[i]]]]]

\* an argument of the rendered call, evaluated where the names of bound are
\* bound; draw is what random.randint returns in this evaluation
NameError == [error |-> "NameError", value |-> Num(0)]

Evaluate(expr, bound, draw) ==
    IF expr.kind = "literal" THEN Converted(expr.value)
    ELSE IF expr.name \notin DOMAIN bound THEN NameError
    ELSE IF expr.kind = "name" THEN Converted(bound[expr.name])
    ELSE IF bound[expr.name].n >= 0 THEN Converted(bound[expr.name])
    ELSE Converted(Num(draw))

\* the filename f-string: str() of each interpolated name, "_" in between
RECURSIVE PyJoinWith(_, _)
PyJoinWith(sep, parts) ==
    IF parts = <<>> THEN <<>>
    ELSE IF Len(parts) = 1 THEN parts[1]
    ELSE parts[1] \o sep \o PyJoinWith(sep, Tail(parts))

ScriptFilename(script, bound) ==
    PyJoinWith(<<"_">>, [i \in 1..Len(script.filename) |->
                            PyStr(bound[script.filename[i]])])

\* the filename and the KSampler arguments of every iteration of the script;
\* draws[n] is the random value of iteration n. (An iteration whose call
\* raises ends the script: the iterations after it are what it would have
\* passed.)
ScriptCalls(script, draws) ==
    LET run == ScriptIterations(script)
        Arg(n, field) == Evaluate(script.ksampler[field], run.bound[n], draws[n])
        fields == {"seed", "steps", "cfg", "sampler_name", "scheduler", "denoise"}
    IN [error |-> run.error,
        calls |->
            [n \in 1..Len(run.bound) |->
                [x_idx |-> run.bound[n]["x_idx"].n,
                 y_idx |-> run.bound[n]["y_idx"].n,
                 z_idx |-> run.bound[n]["z_idx"].n,
                 filename |-> ScriptFilename(script, run.bound[n]),
                 error |-> IF \E f \in fields : Arg(n, f).error # None
                           THEN "NameError" ELSE None,
                 seed |-> Arg(n, "seed").value.n,
                 steps |-> Arg(n, "steps").value,
                 cfg |-> Arg(n, "cfg").value,
                 sampler_name |-> Arg(n, "sampler_name").value,
                 scheduler |-> Arg(n, "scheduler").value,
                 denoise |-> Arg(n, "denoise").value]]]

\* ---- the request of one combination (experiment_service.py 103-131) ----
\* int(v) and float(v): a number converts (int drops the fraction of a
\* float), a str converts when it is a run of digits and raises otherwise
IsDigits(s) == s # <<>> /\ \A i \in 1..Len(s) : s[i] \in DigitChars

\* an int() that rounds a float to the nearest integer
PyToInt_Rounding(v) ==
    IF v.kind = "num" THEN Converted(v)
    ELSE IF v.kind = "float" THEN Converted(Num((v.n + 5) \div 10))
    ELSE IF IsDigits(v.s) THEN Converted(Num(PyInt(v.s)))
    ELSE ValueError

PyToInt(v) ==
    IF v.kind = "num" THEN Converted(v)
    ELSE IF v.kind = "float"
    THEN Converted(Num(IF v.n >= 0 THEN v.n \div 10 ELSE -((-v.n) \div 10)))
    ELSE IF IsDigits(v.s) THEN Converted(Num(PyInt(v.s)))
    ELSE ValueError

PyToFloat(v) ==
    IF v.kind = "num" THEN Converted(Float(10 * v.n))
    ELSE IF v.kind = "float" THEN Converted(v)
    ELSE IF IsDigits(v.s) THEN Converted(Float(10 * PyInt(v.s)))
    ELSE ValueError

\* _build_sampler_kwargs: the defaults, then the overrides in the order of
\* the code; the first conversion that raises ends the call
_build_sampler_kwargs(params, seed) ==
    LET steps == IF "steps" \in DOMAIN params
                 THEN PyToInt(params["steps"]) ELSE Converted(Num(20))
        cfg == IF "cfg" \in DOMAIN params
               THEN PyToFloat(params["cfg"]) ELSE Converted(Float(80))
        sampler_name ==
            IF "sampler_name" \in DOMAIN params \/ "sampler" \in DOMAIN params
            THEN DictGet(params, "sampler_name", DictGet(params, "sampler", None))
            ELSE EULER
        scheduler == IF "scheduler" \in DOMAIN params
                     THEN params["scheduler"] ELSE NORMAL
        denoise == IF "denoise" \in DOMAIN params
                   THEN PyToFloat(params["denoise"]) ELSE Converted(Float(10))
    IN [error |-> IF \E c \in {steps, cfg, denoise} : c.error # None
                  THEN "ValueError" ELSE None,
        seed |-> seed, steps |-> steps.value, cfg |-> cfg.value,
        sampler_name |-> sampler_name, scheduler |-> scheduler,
        denoise |-> denoise.value]

\* params of the combination at the loop positions of a request
EngineParams(pg, req) ==
    PyDict(<<<<pg.x_axis.name, pg.x_axis.values[req.x_idx + 1]>>,
             <<pg.y_axis.name, pg.y_axis.values[req.y_idx + 1]>>,
             <<pg.z_axis.name, pg.z_axis.values[req.z_idx + 1]>>>>)

\* filename = f"{x_idx}_{y_idx}_{z_idx}"
EngineFilename(req) ==
    PyStrInt(req.x_idx) \o <<"_">> \o PyStrInt(req.y_idx) \o <<"_">>
        \o PyStrInt(req.z_idx)

\* what the engine builds for one request of a run on the grid pg
Attempt(pg, req) ==
    [index |-> req.index, seed |-> req.seed,
     x_idx |-> req.x_idx, y_idx |-> req.y_idx, z_idx |-> req.z_idx,
     params |-> EngineParams(pg, req),
     filename |-> EngineFilename(req),
     sampler_kwargs |-> _build_sampler_kwargs(EngineParams(pg, req), req.seed)]

\* the try block of one combination: it raises when the request cannot be
\* built or when a backend call fails (fails: the ordinals the backend refuses)
CombinationOk(pg, task, fails) ==
    /\ Attempt(pg, Request(task)).sampler_kwargs.error = None
    /\ task.current_index \notin fails

\* a run of the engine from its start to its exit with no other request in
\* between: the segments of the run one after the other
RECURSIVE RunLoop(_, _, _)
RunLoop(st, pg, fails) ==
    IF st.task.pc = "generating"
    THEN RunLoop(Generated(st, CombinationOk(pg, st.task, fails)), pg, fails)
    ELSE st

RunToExit(pg, seed, rnd, fails) ==
    LET g == AxisCounts(pg)
        st0 == [rec |-> NewExperiment(1, g, seed, total_combinations(g)),
                reg |-> <<>>, task |-> NewTask(1), writes |-> <<>>]
    IN RunLoop(Opened(Started(st0, TRUE, rnd), TRUE), pg, fails)

\* ---- the grid and the generator as functions of a grid ----
GridOps == {"grid", "get_combination", "generate_script"}

InitGrid ==
    /\ experiments = <<>>
    /\ order = <<>>
    /\ running_experiments = <<>>
    /\ tasks = <<>>
    /\ syncs = 0
    /\ \E pg \in ParameterGridInputs :
           last = [op |-> "grid", id |-> 0, task |-> 0, outcome |-> "ok",
                   request |-> [grid |-> pg],
                   before |-> None, writes |-> <<>>]

GetCombination ==
    /\ last.op \in GridOps
    /\ \E index \in IndexInputs(last.request.grid) :
           last' = [op |-> "get_combination", id |-> 0, task |-> 0,
                    outcome |-> get_combination(last.request.grid, index),
                    request |-> [grid |-> last.request.grid, index |-> index],
                    before |-> None, writes |-> <<>>]
    /\ UNCHANGED <<experiments, order, running_experiments, tasks, syncs>>

GenerateScript ==
    /\ last.op \in GridOps
    /\ \E template \in WorkflowTemplate :
           last' = [op |-> "generate_script", id |-> 0, task |-> 0,
                    outcome |-> generate_script(last.request.grid,
                                                [template |-> template,
                                                 seed |-> DefaultSeed]),
                    request |-> [grid |-> last.request.grid, template |-> template],
                    before |-> None, writes |-> <<>>]
    /\ UNCHANGED <<experiments, order, running_experiments, tasks, syncs>>

NextGrid ==
    \/ GetCombination
    \/ GenerateScript

SpecGrid == InitGrid /\ [][NextGrid]_vars

\* ---- the requests of the engine and of the script, as functions of a grid ----
\* the axis names the request builders look at, and one they do not
RequestNameInputs ==
    {"steps", "cfg", "sampler_name", "sampler", "scheduler", "denoise", "width"}

\* value lists of the three types: a float with a fraction, ints, strs (one
\* of them a run of digits), and a longer list of ints
FloatValues == <<Float(175)>>
IntValues == <<Num(4), Num(15)>>
StrValues == <<Str(<<"e">>), Str(<<"7">>)>>
LongValues == <<Num(1), Num(2), Num(3)>>

\* the values of the X, Y and Z axes: every type on every axis, and grids of
\* 1x2x2, 2x2x1, 2x1x2 and 2x2x2 positions (3x2x2 and 2x3x2 with longer lists)
RequestValueInputs ==
    {v \in {<<FloatValues, IntValues, StrValues>>,
            <<IntValues, StrValues, FloatValues>>,
            <<StrValues, FloatValues, IntValues>>,
            <<IntValues, IntValues, IntValues>>,
            <<LongValues, IntValues, StrValues>>,
            <<IntValues, LongValues, IntValues>>} :
        \A i \in 1..3 : Len(v[i]) <= MaxLen /\ validate_values(v[i])}

RequestGridInputs ==
    {[x_axis |-> ParameterDefinition(x_name, v[1]),
      y_axis |-> ParameterDefinition(y_name, v[2]),
      z_axis |-> ParameterDefinition(z_name, v[3])] :
        x_name \in RequestNameInputs, y_name \in RequestNameInputs,
        z_name \in RequestNameInputs, v \in RequestValueInputs}

\* the ordinals on which the backend may be made to fail
FailureInputs == SUBSET {0, 1}

InitRequests ==
    /\ experiments = <<>>
    /\ order = <<>>
    /\ running_experiments = <<>>
    /\ tasks = <<>>
    /\ syncs = 0
    /\ \E pg \in RequestGridInputs :
           last = [op |-> "grid", id |-> 0, task |-> 0, outcome |-> "ok",
                   request |-> [grid |-> pg],
                   before |-> None, writes |-> <<>>]

EngineRun ==
    /\ last.op = "grid"
    /\ \E seed \in SeedInputs, rnd \in RandomSeeds, fails \in FailureInputs :
           LET pg == last.request.grid
               st == RunToExit(pg, seed, rnd, fails)
           IN last' = [op |-> "engine_run", id |-> 0, task |-> 0,
                       outcome |->
                           [how |-> st.task.outcome,
                            attempts |-> [i \in 1..Len(st.task.invocations) |->
                                             Attempt(pg, st.task.invocations[i])],
                            results |-> st.task.results,
                            errors |-> Len(st.task.error_calls)],
                       request |-> [grid |-> pg, seed |-> seed, rnd |-> rnd,
                                    fails |-> fails],
                       before |-> None, writes |-> <<>>]
    /\ UNCHANGED <<experiments, order, running_experiments, tasks, syncs>>

RenderScript ==
    /\ last.op = "grid"
    /\ \E seed \in SeedInputs :
       \E draws \in [1..(MaxLen * MaxLen * MaxLen) -> RandomSeeds] :
           LET pg == last.request.grid
               script == generate_script(pg, [template |-> TXT2IMG, seed |-> seed])
           IN last' = [op |-> "render_script", id |-> 0, task |-> 0,
                       outcome |-> [script |-> script,
                                    run |-> ScriptCalls(script, draws)],
                       request |-> [grid |-> pg, seed |-> seed, draws |-> draws],
                       before |-> None, writes |-> <<>>]
    /\ UNCHANGED <<experiments, order, running_experiments, tasks, syncs>>

NextRequests ==
    \/ EngineRun
    \/ RenderScript

SpecRequests == InitRequests /\ [][NextRequests]_vars

(***************************************************************************)
(* Properties                                                              *)
(***************************************************************************)
Terminal == {COMPLETED, FAILED, CANCELLED}

Known(id) == id \in DOMAIN experiments

Live(t) == tasks[t].pc \in {"loading", "generating"}

EngineOps == {"background_start", "session_opened", "generate_done"}

\* the status values the record went through in the last operation
StatusChain == <<last.before>> \o last.writes

LifecycleEdge(a, b) ==
    \/ b = QUEUED /\ a \in {DRAFT, QUEUED}
    \/ b = RUNNING /\ a = QUEUED
    \/ b \in Terminal /\ a = RUNNING

\* C1: every change of a record's status follows an edge of the lifecycle
\* DRAFT -> QUEUED -> RUNNING -> {COMPLETED, FAILED, CANCELLED}.
C1_LifecycleEdgesOnly ==
    last.op \notin {"init", "create"} =>
        \A i \in 1..Len(last.writes) :
            StatusChain[i] # StatusChain[i + 1] =>
                LifecycleEdge(StatusChain[i], StatusChain[i + 1])

\* C2: once a record's status is COMPLETED, FAILED or CANCELLED, no operation
\* changes it.
C2_TerminalIsFinal ==
    [][\A id \in DOMAIN experiments :
          experiments[id].status \in Terminal =>
              experiments'[id].status = experiments[id].status]_vars

\* C3: when the run of an experiment that was cancelled successfully (its
\* status is CANCELLED) exits, the final status is CANCELLED and
\* images_generated <= total_images.
C3_CancelYieldsCancelled ==
    (/\ last.op \in EngineOps
     /\ tasks[last.task].pc = "done"
     /\ last.before = CANCELLED) =>
        /\ experiments[last.id].status = CANCELLED
        /\ experiments[last.id].images_generated <= experiments[last.id].total_images

\* C4: no two background engine runs of the same experiment are in progress
\* (started and not exited) at the same time.
C4_OneRunPerExperiment ==
    \A t, u \in 1..Len(tasks) :
        (t # u /\ tasks[t].exp = tasks[u].exp) => ~(Live(t) /\ Live(u))

\* C5: execute on a DRAFT experiment leaves it QUEUED and schedules exactly
\* one background task; when a background task starts it sets the status to
\* RUNNING and stamps started_at.
C5_ExecuteQueuesThenRuns ==
    [][/\ (last'.op = "execute" /\ Known(last'.id)
            /\ experiments[last'.id].status = DRAFT) =>
               /\ last'.outcome = "ok"
               /\ experiments'[last'.id].status = QUEUED
               /\ tasks' = Append(tasks, NewTask(last'.id))
       /\ last'.op = "background_start" =>
               /\ tasks[last'.task].pc = "scheduled"
               /\ last'.writes # <<>>
               /\ last'.writes[1] = RUNNING
               /\ experiments'[last'.id].started_at # NoTime
               /\ experiments'[last'.id].started_at > experiments[last'.id].updated_at
               /\ (tasks'[last'.task].pc # "done" =>
                       experiments'[last'.id].status = RUNNING)]_vars

C5_Witness ==
    /\ last.op = "background_start"
    /\ last.before = QUEUED
    /\ experiments[last.id].status = RUNNING
    /\ experiments[last.id].started_at # NoTime
    /\ Len(tasks) = 1

\* C6: execute on a RUNNING experiment fails with AlreadyRunning, schedules
\* nothing and leaves the records and the run registry unchanged.
C6_ExecuteOnRunningRefused ==
    [][(last'.op = "execute" /\ Known(last'.id)
            /\ experiments[last'.id].status = RUNNING) =>
           /\ last'.outcome = "AlreadyRunning"
           /\ UNCHANGED <<experiments, order, running_experiments, tasks>>]_vars

C6_Witness ==
    /\ last.op = "execute"
    /\ last.outcome = "AlreadyRunning"
    /\ experiments[last.id].status = RUNNING
    /\ last.id \in DOMAIN running_experiments

\* C7: cancel on an experiment that is not RUNNING fails with NotRunning,
\* cancel on an unknown id fails with NotFound, and both leave the records
\* and the run registry (cancellation flags included) unchanged.
C7_CancelRefused ==
    [][last'.op = "cancel" =>
           /\ ~Known(last'.id) =>
                  /\ last'.outcome = "NotFound"
                  /\ UNCHANGED <<experiments, order, running_experiments, tasks>>
           /\ (Known(last'.id) /\ experiments[last'.id].status # RUNNING) =>
                  /\ last'.outcome = "NotRunning"
                  /\ UNCHANGED <<experiments, order, running_experiments, tasks>>]_vars

C7_Witness ==
    /\ last.op = "cancel"
    /\ last.outcome = "NotRunning"
    /\ last.id \in DOMAIN running_experiments
    /\ ~running_experiments[last.id]
    /\ \E t \in 1..Len(tasks) : Live(t)

\* C8: a per-combination failure invokes on_error and the run goes on; a run
\* whose every combination failed (the session opened, no cancellation) ends
\* in a terminal status other than FAILED with images_generated = 0 and no
\* results.
AllCombinationsFailed(t) ==
    /\ tasks[t].pc = "done"
    /\ tasks[t].outcome = "completed"
    /\ tasks[t].loads = 1
    /\ Len(tasks[t].invocations) = total_combinations(experiments[tasks[t].exp].grid)
    /\ Len(tasks[t].error_calls) = Len(tasks[t].invocations)

C8_AllFailedRunEndsEmpty ==
    (last.op = "generate_done" /\ AllCombinationsFailed(last.task)) =>
        /\ experiments[last.id].status \in Terminal \ {FAILED}
        /\ experiments[last.id].images_generated = 0
        /\ tasks[last.task].results = <<>>

\* C9: on an engine-level failure the engine invokes on_error, performs no
\* combination, and the record moves from RUNNING to FAILED with an error
\* message; a FAILED record always has error_message set.
C9_EngineFailureMarksFailed ==
    /\ (last.op \in EngineOps /\ last.outcome = "failed") =>
           /\ tasks[last.task].error_calls = <<BackendUnavailable>>
           /\ tasks[last.task].invocations = <<>>
           /\ StatusChain[Len(StatusChain)] = FAILED
           /\ StatusChain[Len(StatusChain) - 1] = RUNNING
           /\ experiments[last.id].status = FAILED
           /\ experiments[last.id].error_message = BackendUnavailable
    /\ \A id \in DOMAIN experiments :
           experiments[id].status = FAILED => experiments[id].error_message # None

\* C10: within one run, consecutive on_progress invocations carry strictly
\* increasing result indices and strictly increasing counts.
C10_ProgressStrictlyIncreasing ==
    \A t \in 1..Len(tasks) :
        \A i \in 1..(Len(tasks[t].progress_calls) - 1) :
            /\ tasks[t].progress_calls[i + 1].index > tasks[t].progress_calls[i].index
            /\ tasks[t].progress_calls[i + 1].current > tasks[t].progress_calls[i].current

C10_Witness ==
    \E t \in 1..Len(tasks) :
        /\ Len(tasks[t].progress_calls) >= 2
        /\ tasks[t].pc = "done"

\* the number of images a create request asks for
RequestedImages(req) ==
    IF req.multi_seed
    THEN req.grid.nx * req.grid.ny * req.grid.nz * req.num_seeds
    ELSE req.grid.nx * req.grid.ny * req.grid.nz

C12_CreateStoresDraft ==
    (last.op = "create" /\ last.outcome = "ok") =>
        /\ last.id \in DOMAIN experiments
        /\ order # <<>>
        /\ order[Len(order)] = last.id
        /\ experiments[last.id].status = DRAFT
        /\ experiments[last.id].images_generated = 0
        /\ experiments[last.id].progress[1] = 0
        /\ experiments[last.id].grid = last.request.grid
        /\ experiments[last.id].total_images = RequestedImages(last.request)

C12_Witness ==
    /\ last.op = "create"
    /\ last.outcome = "ok"
    /\ last.request.multi_seed
    /\ last.request.num_seeds = 10
    /\ experiments[last.id].total_images = max_images_per_experiment
    /\ Len(order) = 2

\* the ids of the records list() returns, in the order it returns them
ListedIds == [i \in 1..Len(list_experiments) |-> list_experiments[i].id]

Found(id) == get_experiment(id).status_code = 200

\* C13: the record store only grows: get(id) returns the record of every id
\* ever created and NotFound for every other id, list() returns exactly the
\* created records in creation order, and no operation removes or reorders
\* a record.
C13_StoreOnlyGrows ==
    [][/\ \A id \in StoreIds \cup RequestIds :
              /\ Found(id) => Found(id)'
              /\ (~Found(id) /\ Found(id)') =>
                     /\ last'.op = "create"
                     /\ last'.outcome = "ok"
                     /\ last'.id = id
              /\ (last'.op = "create" /\ last'.outcome = "ok" /\ last'.id = id) =>
                     /\ ~Found(id)
                     /\ Found(id)'
                     /\ ListedIds' = Append(ListedIds, id)
              /\ Found(id)' => get_experiment(id)'.body.id = id
       /\ (last'.op = "create" /\ last'.outcome = "ok") \/ ListedIds' = ListedIds
       /\ \A i \in 1..Len(ListedIds') :
              \E id \in StoreIds :
                  /\ id = ListedIds'[i]
                  /\ Found(id)'
                  /\ list_experiments'[i] = get_experiment(id)'.body
       /\ \A i, j \in 1..Len(ListedIds') : i # j => ListedIds'[i] # ListedIds'[j]
       /\ Cardinality({id \in StoreIds \cup RequestIds : Found(id)'}) = Len(ListedIds')]_vars

C13_Witness ==
    /\ ListedIds = <<3, 1, 2>>
    /\ experiments[1].status = COMPLETED
    /\ experiments[1].wandb_run_id # None
    /\ ~Found(FakeId)

\* the combination a mapping holds, read axis by axis
Triple(pg, mapping) ==
    <<mapping[pg.x_axis.name], mapping[pg.y_axis.name], mapping[pg.z_axis.name]>>

ValueSet(axis) == {axis.values[i] : i \in 1..Len(axis.values)}

\* C14: for every grid, total_combinations = nx*ny*nz and get_combination is
\* a bijection from [0, total_combinations) onto the Cartesian product of the
\* three axes' values.
C14_CombinationBijection ==
    last.op = "get_combination" =>
        LET pg == last.request.grid
            total == total_combinations(AxisCounts(pg))
            at(i) == get_combination(pg, i)
        IN /\ total = Len(pg.x_axis.values) * Len(pg.y_axis.values) * Len(pg.z_axis.values)
           /\ \A i \in 0..(total - 1) :
                  /\ at(i).error = None
                  /\ Triple(pg, at(i).mapping) \in
                         ValueSet(pg.x_axis) \X ValueSet(pg.y_axis) \X ValueSet(pg.z_axis)
           /\ \A i, j \in 0..(total - 1) : i # j => at(i).mapping # at(j).mapping
           /\ \A c \in ValueSet(pg.x_axis) \X ValueSet(pg.y_axis) \X ValueSet(pg.z_axis) :
                  \E i \in 0..(total - 1) : Triple(pg, at(i).mapping) = c

\* C14, amended: total_combinations = nx*ny*nz; get_combination returns a
\* mapping for every index of [0, total_combinations), built from the values
\* at the positions x = i mod nx, y = (i mod nx*ny) div nx, z = i div nx*ny,
\* and the indices go one-to-one onto the positions [0,nx) x [0,ny) x [0,nz).
\* (Each axis name holds the value at its position unless a later axis has
\* the same name; the mappings themselves are a bijection onto the product of
\* the values only when no axis repeats a value and the names differ.)
DistinctNames(pg) ==
    /\ pg.x_axis.name # pg.y_axis.name
    /\ pg.y_axis.name # pg.z_axis.name
    /\ pg.x_axis.name # pg.z_axis.name

NoRepeatedValue(axis) ==
    \A i, j \in 1..Len(axis.values) : i # j => axis.values[i] # axis.values[j]

Positions(pg) ==
    [x_idx : 0..(Len(pg.x_axis.values) - 1),
     y_idx : 0..(Len(pg.y_axis.values) - 1),
     z_idx : 0..(Len(pg.z_axis.values) - 1)]

C14_BijectionOnPositions ==
    last.op = "get_combination" =>
        LET pg == last.request.grid
            total == total_combinations(AxisCounts(pg))
            at(i) == get_combination(pg, i)
            pos(i) == CombinationIndices(pg, i)
        IN /\ total = Len(pg.x_axis.values) * Len(pg.y_axis.values) * Len(pg.z_axis.values)
           /\ \A i \in 0..(total - 1) :
                  /\ at(i).error = None
                  /\ pos(i) \in Positions(pg)
                  /\ at(i).mapping[pg.z_axis.name] = pg.z_axis.values[pos(i).z_idx + 1]
                  /\ pg.y_axis.name # pg.z_axis.name =>
                         at(i).mapping[pg.y_axis.name] = pg.y_axis.values[pos(i).y_idx + 1]
                  /\ pg.x_axis.name \notin {pg.y_axis.name, pg.z_axis.name} =>
                         at(i).mapping[pg.x_axis.name] = pg.x_axis.values[pos(i).x_idx + 1]
           /\ \A i, j \in 0..(total - 1) : i # j => pos(i) # pos(j)
           /\ \A p \in Positions(pg) : \E i \in 0..(total - 1) : pos(i) = p
           /\ (/\ DistinctNames(pg)
               /\ NoRepeatedValue(pg.x_axis)
               /\ NoRepeatedValue(pg.y_axis)
               /\ NoRepeatedValue(pg.z_axis)) =>
                  /\ \A i, j \in 0..(total - 1) :
                         i # j => at(i).mapping # at(j).mapping
                  /\ \A c \in ValueSet(pg.x_axis) \X ValueSet(pg.y_axis)
                                  \X ValueSet(pg.z_axis) :
                         \E i \in 0..(total - 1) : Triple(pg, at(i).mapping) = c

C14_Witness ==
    /\ last.op = "get_combination"
    /\ DistinctNames(last.request.grid)
    /\ NoRepeatedValue(last.request.grid.x_axis)
    /\ NoRepeatedValue(last.request.grid.y_axis)
    /\ NoRepeatedValue(last.request.grid.z_axis)
    /\ total_combinations(AxisCounts(last.request.grid)) = MaxLen * MaxLen * MaxLen
    /\ last.request.index = MaxLen * MaxLen * MaxLen - 1
    /\ last.outcome.error = None

\* C15: for every grid, get_combination(0) yields the first value of every
\* axis and get_combination(total_combinations - 1) the last value of every
\* axis.
C15_FirstAndLast ==
    last.op = "get_combination" =>
        LET pg == last.request.grid
            total == total_combinations(AxisCounts(pg))
        IN /\ last.request.index = 0 =>
                  /\ last.outcome.error = None
                  /\ Triple(pg, last.outcome.mapping) =
                         <<pg.x_axis.values[1], pg.y_axis.values[1], pg.z_axis.values[1]>>
           /\ last.request.index = total - 1 =>
                  /\ last.outcome.error = None
                  /\ Triple(pg, last.outcome.mapping) =
                         <<pg.x_axis.values[Len(pg.x_axis.values)],
                           pg.y_axis.values[Len(pg.y_axis.values)],
                           pg.z_axis.values[Len(pg.z_axis.values)]>>

\* C16: get_combination(index) fails for every index outside
\* [0, total_combinations), negative or too large, and returns a mapping only
\* for an index inside the range.
C16_OutOfRangeFails ==
    last.op = "get_combination" =>
        LET total == total_combinations(AxisCounts(last.request.grid))
            inside == 0 <= last.request.index /\ last.request.index < total
        IN (last.outcome.error = None) <=> inside

\* the combinations get_combination yields for the indices 0, 1, ... in turn
CombinationsInOrder(pg) ==
    [i \in 1..total_combinations(AxisCounts(pg)) |->
        Triple(pg, get_combination(pg, i - 1).mapping)]

Embeds(script, axis) ==
    \E i \in 1..Len(script.definitions) :
        /\ script.definitions[i].name = axis.name \o "_values"
        /\ PyEvalList(script.definitions[i].text) = [error |-> None, value |-> axis.values]

\* C17: the generated txt2img script embeds the three axis value lists
\* verbatim and nests three loops, Z outermost, Y in the middle, X innermost,
\* so the script visits the combinations in the order of get_combination.
C17_ScriptLoopsInOrder ==
    (last.op = "generate_script" /\ last.request.template = TXT2IMG) =>
        LET pg == last.request.grid
            script == last.outcome
        IN /\ script.error = None
           /\ Embeds(script, pg.x_axis)
           /\ Embeds(script, pg.y_axis)
           /\ Embeds(script, pg.z_axis)
           /\ [i \in 1..Len(script.loops) |-> script.loops[i].var] =
                  <<pg.z_axis.name, pg.y_axis.name, pg.x_axis.name>>
           /\ [i \in 1..Len(script.loops) |-> script.loops[i].iterable] =
                  <<pg.z_axis.name \o "_values", pg.y_axis.name \o "_values",
                    pg.x_axis.name \o "_values">>
           /\ RunScript(script).error = None
           /\ RunScript(script).results = CombinationsInOrder(pg)

\* C18: generate_script succeeds for txt2img, returns a marked placeholder
\* without failing for img2img and hires_fix, and fails with
\* UnsupportedTemplate for every other template (lora_comparison, custom).
C18_TemplateDispatch ==
    last.op = "generate_script" =>
        /\ last.request.template = TXT2IMG =>
               /\ last.outcome.error = None
               /\ Len(last.outcome.loops) = 3
        /\ last.request.template \in {IMG2IMG, HIRES_FIX} =>
               /\ last.outcome.error = None
               /\ last.outcome.loops = <<>>
               /\ last.outcome.text \in {"# img2img workflow - TODO: implement",
                                         "# hires fix workflow - TODO: implement"}
        /\ last.request.template \in {LORA_COMPARISON, CUSTOM} =>
               /\ last.outcome.error = "ValueError"
               /\ last.outcome.text = "Unsupported template"
               /\ last.outcome.loops = <<>>

C18_Witness ==
    /\ last.op = "generate_script"
    /\ last.request.template = HIRES_FIX
    /\ last.outcome.error = None
    /\ last.outcome.text = "# hires fix workflow - TODO: implement"

\* C19: the engine's cancel returns true and sets the registry flag to false
\* exactly when the id has a registry entry, and otherwise returns false and
\* leaves the registry unchanged; is_running returns false for an id with no
\* entry and never modifies the registry.
C19_EngineCancelAndLookup ==
    /\ last.op = "executor_cancel" =>
           LET registry == last.request.registry
           IN /\ last.outcome = (last.id \in DOMAIN registry)
              /\ last.id \in DOMAIN registry =>
                     /\ DOMAIN running_experiments = DOMAIN registry
                     /\ running_experiments[last.id] = FALSE
                     /\ \A id \in DOMAIN registry \ {last.id} :
                            running_experiments[id] = registry[id]
              /\ last.id \notin DOMAIN registry => running_experiments = registry
    /\ last.op = "is_running" =>
           /\ running_experiments = last.request.registry
           /\ last.id \notin DOMAIN running_experiments => last.outcome = FALSE
           /\ last.id \in DOMAIN running_experiments =>
                  last.outcome = running_experiments[last.id]

C19_Witness ==
    /\ last.op = "executor_cancel"
    /\ last.outcome = TRUE
    /\ last.request.registry[last.id] = FALSE
    /\ \E id \in DOMAIN running_experiments : running_experiments[id]

\* C20: once the engine's cancel has returned true for an experiment, the run
\* registered for it starts no further backend invocation, whatever requests
\* follow on that experiment.
C20_NoInvocationAfterCancel ==
    \A t \in 1..Len(tasks) :
        tasks[t].cancelled_after # NotCancelled =>
            Len(tasks[t].invocations) = tasks[t].cancelled_after

\* C21: when an engine run exits by any path (normal completion, observed
\* cancellation, engine-level failure), the experiment id is absent from the
\* run registry immediately afterwards.
C21_ExitUnregisters ==
    (last.op \in EngineOps /\ tasks[last.task].pc = "done") =>
        last.id \notin DOMAIN running_experiments

\* a run exits on an observed cancellation while another run of the same
\* experiment has not exited
C21_Witness ==
    /\ last.op \in EngineOps
    /\ tasks[last.task].pc = "done"
    /\ tasks[last.task].outcome = "cancelled"
    /\ \E u \in 1..Len(tasks) : u # last.task /\ Live(u)
    /\ last.id \notin DOMAIN running_experiments

\* C22: every progress callback passes as its count the number of
\* combinations that completed successfully so far in the run (the length of
\* the result list), so the i-th callback of a run passes i, also when
\* earlier combinations of the run failed.
C22_CountIsResults ==
    \A t \in 1..Len(tasks) :
        \A i \in 1..Len(tasks[t].progress_calls) :
            tasks[t].progress_calls[i].current = i

\* the record after a progress callback of the last step
CallbackInLastStep ==
    /\ last.op = "generate_done"
    /\ tasks[last.task].progress_calls # <<>>
    /\ LET calls == tasks[last.task].progress_calls
       IN calls[Len(calls)].index = tasks[last.task].current_index - 1

\* C23: after every engine progress callback the record satisfies
\* progress = images_generated / total_images, also for multi-seed
\* experiments with num_seeds > 1.
C23_ProgressIsFraction ==
    CallbackInLastStep =>
        LET rec == experiments[last.id]
        IN rec.progress[1] * rec.total_images
               = rec.images_generated * rec.progress[2]

\* C24: in every reachable state every stored record satisfies
\* 0 <= images_generated <= total_images and 0 <= progress <= 1.
C24_ProgressBounds ==
    \A id \in DOMAIN experiments :
        LET rec == experiments[id]
        IN /\ 0 <= rec.images_generated
           /\ rec.images_generated <= rec.total_images
           /\ rec.progress[2] > 0
           /\ 0 <= rec.progress[1]
           /\ rec.progress[1] <= rec.progress[2]

\* a record that reached its total after a combination of the run failed
C24_Witness ==
    \E t \in 1..Len(tasks) :
        LET rec == experiments[tasks[t].exp]
        IN /\ tasks[t].error_calls # <<>>
           /\ rec.images_generated = rec.total_images
           /\ rec.progress[1] = rec.progress[2]
           /\ rec.images_generated > 1

\* C25: recorded progress is never reverted: images_generated and progress of
\* a stored record never decrease, whatever operation is performed.
C25_ProgressMonotone ==
    [][\A id \in DOMAIN experiments :
          /\ experiments'[id].images_generated >= experiments[id].images_generated
          /\ experiments'[id].progress[1] * experiments[id].progress[2]
                 >= experiments[id].progress[1] * experiments'[id].progress[2]]_vars

\* C27: within one run the seed base is resolved once (the configured seed
\* if it is non-negative, otherwise one random value) and the request of
\* ordinal k uses seed_base + k, so the seeds of the requests of a run are
\* pairwise distinct, also across combinations that failed.
C27_SeedsDistinct ==
    \A t \in 1..Len(tasks) :
        LET inv == tasks[t].invocations
            configured == experiments[tasks[t].exp].seed
        IN /\ (tasks[t].pc = "loading" \/ tasks[t].loads > 0) =>
                  /\ configured >= 0 => tasks[t].seed_base = configured
                  /\ configured < 0 => tasks[t].seed_base \in RandomSeeds
           /\ \A i \in 1..Len(inv) :
                  /\ inv[i].index = i - 1
                  /\ inv[i].seed = tasks[t].seed_base + inv[i].index
           /\ \A i, j \in 1..Len(inv) : i # j => inv[i].seed # inv[j].seed

\* a run with a random seed base that made a second request after its first
\* combination failed
C27_Witness ==
    \E t \in 1..Len(tasks) :
        /\ experiments[tasks[t].exp].seed < 0
        /\ Len(tasks[t].invocations) = 2
        /\ tasks[t].error_calls = <<ImageFailed(0)>>
        /\ tasks[t].invocations[2].seed = tasks[t].seed_base + 1

\* the numeric value of an axis value in tenths (a run of digits counts as
\* the number it spells), and Python's == on two values
Tenths(v) ==
    IF v.kind = "num" THEN 10 * v.n
    ELSE IF v.kind = "float" THEN v.n
    ELSE 10 * PyInt(v.s)

PyEq(a, b) ==
    IF a.kind = "str" \/ b.kind = "str"
    THEN a.kind = b.kind /\ a.s = b.s
    ELSE Tenths(a) = Tenths(b)

AxisNames(pg) == {pg.x_axis.name, pg.y_axis.name, pg.z_axis.name}

\* C26: the engine enumerates the combinations in the index order of the
\* grid: the combination of ordinal k has the parameters of combination k,
\* x_idx = k mod nx, y_idx = (k mod (nx*ny)) div nx, z_idx = k div (nx*ny),
\* an artifact name made of exactly these three positions, and the ordinal
\* advances by one for every combination attempted, failed or not.
C26_EngineInGridOrder ==
    last.op = "engine_run" =>
        LET pg == last.request.grid
            g == AxisCounts(pg)
            attempts == last.outcome.attempts
        IN /\ Len(attempts) = total_combinations(g)
           /\ \A i \in 1..Len(attempts) :
                  LET k == i - 1
                      a == attempts[i]
                  IN /\ a.index = k
                     /\ a.x_idx = k % g.nx
                     /\ a.y_idx = (k % (g.nx * g.ny)) \div g.nx
                     /\ a.z_idx = k \div (g.nx * g.ny)
                     /\ get_combination(pg, k).error = None
                     /\ a.params = get_combination(pg, k).mapping
                     /\ a.filename =
                            PyJoinWith(<<"_">>, <<PyStrInt(k % g.nx),
                                PyStrInt((k % (g.nx * g.ny)) \div g.nx),
                                PyStrInt(k \div (g.nx * g.ny))>>)
           /\ \A i \in 1..Len(last.outcome.results) :
                  last.outcome.results[i].index \notin last.request.fails

\* a run over a 2x2x2 grid whose first two combinations failed and whose
\* last attempt is the last combination of the grid
C26_Witness ==
    /\ last.op = "engine_run"
    /\ last.request.fails = {0, 1}
    /\ Len(last.outcome.attempts) = 8
    /\ last.outcome.errors >= 2
    /\ LET a == last.outcome.attempts[7]
       IN a.x_idx = 0 /\ a.y_idx = 1 /\ a.z_idx = 1
              /\ a.filename = <<"0", "_", "1", "_", "1">>

\* the axis value an argument takes: the value under either of its names
Overriding(a, names) == {a.params[n] : n \in names \cap DOMAIN a.params}

\* C28 as stated: in every sampler request of the engine each of steps, cfg,
\* sampler, scheduler and denoise is its default (20, 8.0, euler, normal,
\* 1.0) unless an axis is named after it, and then it is the axis value of
\* the combination.
C28_OverridesTakeAxisValue ==
    last.op = "engine_run" =>
        \A i \in 1..Len(last.outcome.attempts) :
            LET a == last.outcome.attempts[i]
                kw == a.sampler_kwargs
                Field(value, names, default) ==
                    IF Overriding(a, names) = {}
                    THEN value = default
                    ELSE \E v \in Overriding(a, names) : PyEq(value, v)
            IN kw.error = None =>
                   /\ Field(kw.steps, {"steps"}, Num(20))
                   /\ Field(kw.cfg, {"cfg"}, Float(80))
                   /\ Field(kw.sampler_name, {"sampler_name", "sampler"}, EULER)
                   /\ Field(kw.scheduler, {"scheduler"}, NORMAL)
                   /\ Field(kw.denoise, {"denoise"}, Float(10))

\* C28 (amended): as above, but steps is the integer part of the axis value
\* and cfg and denoise are the axis value as a float (a run of digits counts
\* as the number it spells); sampler and scheduler are the axis value itself.
\* A combination whose steps, cfg or denoise value is a str that is not a
\* number makes no request and yields no result.
C28_OverridesConverted ==
    last.op = "engine_run" =>
        \A i \in 1..Len(last.outcome.attempts) :
            LET a == last.outcome.attempts[i]
                kw == a.sampler_kwargs
                Same(value, names, default) ==
                    IF Overriding(a, names) = {}
                    THEN value = default
                    ELSE value \in Overriding(a, names)
                AsInt(value, names, default) ==
                    IF Overriding(a, names) = {}
                    THEN value = default
                    ELSE /\ value.kind = "num"
                         /\ \E v \in Overriding(a, names) :
                                /\ 10 * value.n <= Tenths(v)
                                /\ Tenths(v) < 10 * value.n + 10
                AsFloat(value, names, default) ==
                    IF Overriding(a, names) = {}
                    THEN value = default
                    ELSE /\ value.kind = "float"
                         /\ \E v \in Overriding(a, names) : value.n = Tenths(v)
            IN /\ kw.error = None =>
                      /\ AsInt(kw.steps, {"steps"}, Num(20))
                      /\ AsFloat(kw.cfg, {"cfg"}, Float(80))
                      /\ Same(kw.sampler_name, {"sampler_name", "sampler"}, EULER)
                      /\ Same(kw.scheduler, {"scheduler"}, NORMAL)
                      /\ AsFloat(kw.denoise, {"denoise"}, Float(10))
               /\ kw.error # None <=>
                      \E v \in Overriding(a, {"steps", "cfg", "denoise"}) :
                          v.kind = "str" /\ ~IsDigits(v.s)
               /\ kw.error # None =>
                      \A j \in 1..Len(last.outcome.results) :
                          last.outcome.results[j].index # a.index

\* a request whose steps come from an axis value of 17.5 and whose cfg comes
\* from an int axis, the third axis having an unrelated name
C28_Witness ==
    /\ last.op = "engine_run"
    /\ last.request.grid.x_axis.name = "steps"
    /\ last.request.grid.y_axis.name = "cfg"
    /\ last.request.grid.z_axis.name = "width"
    /\ \E i \in 1..Len(last.outcome.attempts) :
           LET a == last.outcome.attempts[i]
           IN /\ a.params["steps"] = Float(175)
              /\ a.params["cfg"] = Num(15)
              /\ a.sampler_kwargs.error = None
              /\ a.sampler_kwargs.steps = Num(17)
              /\ a.sampler_kwargs.cfg = Float(150)
              /\ a.sampler_kwargs.denoise = Float(10)

\* C29: the generated txt2img script passes, for every combination, the same
\* sampler arguments (steps, cfg, sampler, scheduler, denoise and, for a
\* configured seed, the seed) as the request of the engine for that
\* combination, through names the script has bound.
C29_ScriptMatchesEngine ==
    last.op = "render_script" =>
        LET pg == last.request.grid
            run == last.outcome.run
            engine == RunToExit(pg, last.request.seed, 0, {}).task.invocations
        IN /\ run.error = None
           /\ Len(run.calls) = Len(engine)
           /\ \A n \in 1..Len(run.calls) :
                  LET call == run.calls[n]
                      kw == Attempt(pg, engine[n]).sampler_kwargs
                  IN /\ call.error = None
                     /\ kw.error = None =>
                            /\ last.request.seed >= 0 => call.seed = kw.seed
                            /\ PyEq(call.steps, kw.steps)
                            /\ PyEq(call.cfg, kw.cfg)
                            /\ PyEq(call.sampler_name, kw.sampler_name)
                            /\ PyEq(call.scheduler, kw.scheduler)
                            /\ PyEq(call.denoise, kw.denoise)

\* C30: for every combination, the filename the loop body of the generated
\* script builds is the artifact name the engine uses for the same
\* (x_idx, y_idx, z_idx).
C30_SameFilename ==
    last.op = "render_script" =>
        \A n \in 1..Len(last.outcome.run.calls) :
            LET call == last.outcome.run.calls[n]
            IN call.filename =
                   EngineFilename([x_idx |-> call.x_idx, y_idx |-> call.y_idx,
                                   z_idx |-> call.z_idx])

\* C31: the checkpoint is loaded exactly once per engine run, before the
\* first combination and never once per combination, in runs that complete,
\* runs that are cancelled and runs with failed combinations.
C31_OneLoadPerRun ==
    \A t \in 1..Len(tasks) :
        /\ tasks[t].loads <= 1
        /\ (tasks[t].invocations # <<>> \/ tasks[t].pc = "generating") =>
               tasks[t].loads = 1
        /\ tasks[t].outcome \in {"completed", "cancelled"} => tasks[t].loads = 1
        /\ tasks[t].pc \in {"scheduled", "loading"} =>
               tasks[t].loads = 0 /\ tasks[t].invocations = <<>>

\* a run that was cancelled after a combination failed
C31_Witness ==
    \E t \in 1..Len(tasks) :
        /\ tasks[t].outcome = "cancelled"
        /\ tasks[t].error_calls # <<>>
        /\ tasks[t].invocations # <<>>
        /\ tasks[t].loads = 1

\* the fields of a record other than those listed are unchanged in the step
Frame(id, fields) ==
    \A f \in (DOMAIN experiments[id]) \ fields :
        experiments'[id][f] = experiments[id][f]

\* a step of a run in which a callback ran and the run did not exit
CallbackStep ==
    /\ last'.op = "generate_done"
    /\ tasks'[last'.task].pc = "generating"

\* C33: the progress callback and the error callback never change the
\* status of the record: the progress callback changes only
\* images_generated, progress and updated_at, the error callback only
\* error_message and updated_at.
C33_CallbackFrames ==
    [][/\ CallbackStep =>
              LET t == last'.task
                  id == last'.id
              IN /\ experiments'[id].status = experiments[id].status
                 /\ last'.writes = <<>>
                 /\ Len(tasks'[t].progress_calls) > Len(tasks[t].progress_calls) =>
                        Frame(id, {"images_generated", "progress", "updated_at"})
                 /\ Len(tasks'[t].error_calls) > Len(tasks[t].error_calls) =>
                        Frame(id, {"error_message", "updated_at"})
       /\ last'.op = "generate_done" => Len(last'.writes) <= 1]_vars

\* an error callback ran in the last step on a record that is still RUNNING
C33_Witness ==
    /\ last.op = "generate_done"
    /\ tasks[last.task].pc = "generating"
    /\ tasks[last.task].error_calls # <<>>
    /\ tasks[last.task].progress_calls = <<>>
    /\ experiments[last.id].status = RUNNING
    /\ experiments[last.id].error_message = ImageFailed(0)

\* C34: every operation that changes a field of a stored record (execute,
\* background start, the callbacks, completion, failure, cancel, sync) also
\* advances the updated_at of that record in the same step.
C34_ChangesTouchUpdatedAt ==
    [][\A id \in DOMAIN experiments :
          experiments'[id] # experiments[id] =>
              experiments'[id].updated_at > experiments[id].updated_at]_vars

\* a record that was executed, run to completion and synced, each with a
\* later updated_at
C34_Witness ==
    /\ last.op = "sync"
    /\ last.outcome = "ok"
    /\ experiments[last.id].status = COMPLETED
    /\ experiments[last.id].updated_at > experiments[last.id].completed_at

\* C35: after create, no operation changes the id, the workflow
\* configuration, the parameter grid, total_images or created_at of a record.
C35_ImmutableFields ==
    [][\A id \in DOMAIN experiments :
          /\ id \in DOMAIN experiments'
          /\ \A f \in {"id", "seed", "grid", "total_images", "created_at"} :
                 experiments'[id][f] = experiments[id][f]]_vars

\* a record that went through execute, a failed run and a sync
C35_Witness ==
    /\ last.op = "sync"
    /\ last.outcome = "ok"
    /\ experiments[last.id].status = FAILED
    /\ experiments[last.id].created_at = 0

\* a foreground request found the record RUNNING in the last step
ObservedRunning ==
    \/ last.op = "cancel" /\ last.outcome \in {"ok", "CancelFailed"}
    \/ last.op = "execute" /\ last.outcome = "AlreadyRunning"

C36_RunningIsRegistered ==
    /\ \A id \in DOMAIN experiments :
           experiments[id].status = RUNNING => id \in DOMAIN running_experiments
    /\ ~(last.op = "cancel" /\ last.outcome = "CancelFailed")
    /\ \A id \in DOMAIN experiments :
           ~executor_cancel_result(running_experiments, id) =>
               experiments[id].status # RUNNING

\* a cancel request succeeded on a RUNNING record after an earlier run of the
\* same record had exited and left the registry
C36_Witness ==
    /\ last.op = "cancel"
    /\ last.outcome = "ok"
    /\ last.before = RUNNING
    /\ running_experiments[last.id] = FALSE
    /\ \E t \in 1..Len(tasks) : tasks[t].exp = last.id /\ tasks[t].pc = "done"

\* C37: an id has an entry in the run registry exactly when some run of
\* that id has started and not yet exited; the exit of one run never removes
\* the entry that another run of the same id still executing relies on.
C37_RegisteredIffRunLive ==
    \A id \in DOMAIN experiments :
        id \in DOMAIN running_experiments <=>
            \E t \in 1..Len(tasks) : tasks[t].exp = id /\ Live(t)

\* C38: if the status of a record is COMPLETED, the run that set it invoked
\* the backend exactly once for every combination of the grid: every ordinal
\* in [0, total_combinations) was attempted, none skipped, none repeated.
C38_CompletedRanEveryCombination ==
    (/\ last.op \in EngineOps
     /\ last.writes # <<>>
     /\ last.writes[Len(last.writes)] = COMPLETED) =>
        LET run == tasks[last.task]
            total == total_combinations(experiments[last.id].grid)
        IN /\ experiments[last.id].status = COMPLETED
           /\ Len(run.invocations) = total
           /\ \A k \in 1..Len(run.invocations) : run.invocations[k].index = k - 1

\* C39: when every backend invocation returns and the scheduled tasks are
\* run fairly, every experiment on which execute succeeded eventually
\* reaches COMPLETED, FAILED or CANCELLED, and its id is eventually absent
\* from the run registry.
C39_RunsTerminate ==
    \A id \in Ids :
        /\ (Known(id) /\ experiments[id].status \in {QUEUED, RUNNING})
               ~> (Known(id) /\ experiments[id].status \in Terminal)
        /\ (id \in DOMAIN running_experiments)
               ~> (id \notin DOMAIN running_experiments)
        /\ (Known(id) /\ experiments[id].status = QUEUED)
               ~> (/\ Known(id)
                   /\ experiments[id].status \in Terminal
                   /\ id \notin DOMAIN running_experiments)

\* an executed experiment whose every combination failed ended COMPLETED
\* with its id out of the registry
C39_Witness ==
    \E t \in 1..Len(tasks) :
        /\ tasks[t].pc = "done"
        /\ tasks[t].outcome = "completed"
        /\ tasks[t].results = <<>>
        /\ experiments[tasks[t].exp].status \in Terminal
        /\ tasks[t].exp \notin DOMAIN running_experiments
        /\ \A u \in 1..Len(tasks) : tasks[u].pc = "done"

\* the steps of the operations on one experiment
RunOps == {"execute", "cancel"} \cup EngineOps

\* C40: runs of different experiments do not interfere: execute, cancel,
\* the callbacks and the exit of a run of experiment A leave the record of
\* experiment B, B's entry in the run registry with its cancellation flag,
\* and B's runs unchanged.
C40_NoInterference ==
    [][\A b \in DOMAIN experiments :
          (last'.op \in RunOps /\ last'.id # b) =>
              /\ b \in DOMAIN experiments'
              /\ experiments'[b] = experiments[b]
              /\ (b \in DOMAIN running_experiments') =
                     (b \in DOMAIN running_experiments)
              /\ b \in DOMAIN running_experiments =>
                     running_experiments'[b] = running_experiments[b]
              /\ \A t \in 1..Len(tasks) :
                     tasks[t].exp = b => tasks'[t] = tasks[t]]_vars

\* a cancel of one experiment succeeded while a run of the other one is
\* generating with its flag set
C40_Witness ==
    /\ last.op = "cancel"
    /\ last.outcome = "ok"
    /\ \E b \in DOMAIN experiments :
           /\ b # last.id
           /\ experiments[b].status = RUNNING
           /\ b \in DOMAIN running_experiments
           /\ running_experiments[b]
           /\ \E t \in 1..Len(tasks) :
                  tasks[t].exp = b /\ tasks[t].pc = "generating"
====
